---- MODULE Spec2Model ----
(***************************************************************************)
(* Cerina Protocol Foundry: the orchestration core of backend/main.py and  *)
(* backend/agents/{state,workflow}.py as a state machine.                  *)
(*                                                                         *)
(* store[s]   the latest checkpoint of session s as the graph's            *)
(*            checkpointer keeps it: whether one exists, the values, the   *)
(*            node to run next and the node that wrote last.               *)
(* run[s][r]  one execution of the compiled graph (astream / ainvoke) for  *)
(*            session s: "bg" is the background task of create, "st" the   *)
(*            stream endpoint, "ap" the ainvoke of approve.  A run loads   *)
(*            the checkpoint once and then works on its own copy `mem`.    *)
(* halt[s], appr[s], strm[s]  the position of a halt / approve / stream    *)
(*            request between its awaits.                                  *)
(* probe      the argument and the result of one call of a pure function,  *)
(*            for the specifications that examine a function by itself.    *)
(* Every await of the code is a point where another coroutine may run, so  *)
(* each action below is the code between two awaits.                       *)
(***************************************************************************)
EXTENDS Integers, Sequences, FiniteSets, TLC

VARIABLES store, intents, run, halt, appr, strm, events, ghost, probe

vars == <<store, intents, run, halt, appr, strm, events, ghost, probe>>

(* ---------------------------------------------------------------- bounds *)
\* revision rounds (draft steps) a lone run is followed for
MaxDrafts == 6
\* revision rounds a run is followed for when requests interleave with it
MaxRaceDrafts == 1
\* requests (stream, halt, approve) a session receives after its create
MaxRequests == 1

(* ------------------------------------------------------------- constants *)
\* max_iterations passed by create_protocol and by event_generator
MaxIterations == 5

None == "None"
START == "__start__"
END == "__end__"

Sessions == {"s1"}
Intents == {"intent"}
RunIds == {"bg", "st", "ap"}

EmptyChecks == [k \in {} |-> TRUE]

(* ------------------------------------------------------- blackboard state *)
create_initial_state(user_intent, max_iterations) ==
  [ user_intent |-> user_intent,
    status |-> "initializing",
    current_draft |-> None,
    draft_history |-> <<>>,
    current_version |-> 0,
    iteration_count |-> 0,
    max_iterations |-> max_iterations,
    agent_notes |-> <<>>,
    active_agent |-> None,
    safety_checks |-> EmptyChecks,
    safety_score |-> None,
    empathy_score |-> None,
    clinical_score |-> None,
    halted |-> FALSE,
    human_approved |-> FALSE,
    human_edits |-> None ]

add_agent_note(state, agent_name, note, priority) ==
  [state EXCEPT !.agent_notes =
     Append(@, [agent_name |-> agent_name, note |-> note, priority |-> priority])]

\* add_draft_version without the write to current_version
add_draft_version_stale_counter(state, content, created_by) ==
  LET new_draft == [ content |-> content,
                     version |-> state.current_version + 1,
                     iteration |-> state.iteration_count,
                     created_by |-> created_by ]
  IN [state EXCEPT !.draft_history = Append(@, new_draft),
                   !.current_draft = content]

add_draft_version(state, content, created_by) ==
  LET new_draft == [ content |-> content,
                     version |-> state.current_version + 1,
                     iteration |-> state.iteration_count,
                     created_by |-> created_by ]
  IN [state EXCEPT !.draft_history = Append(@, new_draft),
                   !.current_version = new_draft.version,
                   !.current_draft = content]

\* `key in result` on a collaborator's result: the keys it returned
Has(result, key) == key \in result.present

\* dict.get(key, default) on a collaborator's result
Get(result, key, default) ==
  IF Has(result, key) THEN result[key] ELSE default

\* Python truthiness of an optional string
Truthy(x) == x /= None /\ x /= ""

(* ----------------------------------------------------------- collaborators *)
\* what DrafterAgent.draft may return
DrafterResults ==
  { [present |-> {"current_draft"}, current_draft |-> "draft",
     active_agent |-> None, status |-> None] }

\* what SafetyGuardianAgent.review may return
SafetyResults ==
  { [present |-> {}, safety_checks |-> EmptyChecks, safety_score |-> None,
     status |-> None],
    [present |-> {"safety_checks", "safety_score"},
     safety_checks |-> [no_harm |-> TRUE], safety_score |-> "0.9",
     status |-> None] }

\* what ClinicalCriticAgent.critique may return
CriticResults ==
  { [present |-> {"empathy_score", "clinical_score"},
     empathy_score |-> "0.8", clinical_score |-> "0.7", status |-> None] }

\* what SupervisorAgent.decide may return
SupervisorResults ==
  { [present |-> {"status"}, status |-> st, halted |-> h] :
      st \in {"needs_revision", "ready_for_review", "completed"},
      h \in BOOLEAN }
  \cup { [present |-> {}, status |-> None, halted |-> h] : h \in BOOLEAN }

(* ------------------------------------------------------------------ nodes *)
\* draft_node signing its result as the safety guardian
draft_node_as_guardian(state, result) ==
  LET s1 == [state EXCEPT
               !.current_draft = Get(result, "current_draft", state.current_draft),
               !.active_agent = "SafetyGuardian",
               !.status = Get(result, "status", "drafting"),
               !.iteration_count = @ + 1]
  IN IF Truthy(s1.current_draft)
       THEN add_draft_version(s1, s1.current_draft, "Drafter")
       ELSE s1

\* draft_node without the call of add_draft_version
draft_node_unrecorded(state, result) ==
  [state EXCEPT
     !.current_draft = Get(result, "current_draft", state.current_draft),
     !.active_agent = Get(result, "active_agent", "Drafter"),
     !.status = Get(result, "status", "drafting"),
     !.iteration_count = @ + 1]

draft_node(state, result) ==
  LET s1 == [state EXCEPT
               !.current_draft = Get(result, "current_draft", state.current_draft),
               !.active_agent = Get(result, "active_agent", "Drafter"),
               !.status = Get(result, "status", "drafting"),
               !.iteration_count = @ + 1]
  IN IF Truthy(s1.current_draft)
       THEN add_draft_version(s1, s1.current_draft, "Drafter")
       ELSE s1

\* assignment in place of dict.update: b replaces a
DictReplace(a, b) == b

\* dict.update: keys of b override, keys of a alone are kept
DictUpdate(a, b) ==
  [k \in (DOMAIN a) \cup (DOMAIN b) |-> IF k \in DOMAIN b THEN b[k] ELSE a[k]]

safety_review_node(state, result) ==
  [state EXCEPT
     !.safety_checks = IF Has(result, "safety_checks")
                         THEN DictUpdate(@, result.safety_checks) ELSE @,
     !.safety_score = IF Has(result, "safety_score")
                        THEN result.safety_score ELSE @,
     !.active_agent = "SafetyGuardian",
     !.status = Get(result, "status", "reviewing")]

\* clinical_critique_node raising the iteration count as well
clinical_critique_node_counting(state, result) ==
  [state EXCEPT
     !.empathy_score = IF Has(result, "empathy_score")
                         THEN result.empathy_score ELSE @,
     !.clinical_score = IF Has(result, "clinical_score")
                          THEN result.clinical_score ELSE @,
     !.active_agent = "ClinicalCritic",
     !.status = Get(result, "status", "critiquing"),
     !.iteration_count = @ + 1]

\* clinical_critique_node without its signature
clinical_critique_node_unsigned(state, result) ==
  [state EXCEPT
     !.empathy_score = IF Has(result, "empathy_score")
                         THEN result.empathy_score ELSE @,
     !.clinical_score = IF Has(result, "clinical_score")
                          THEN result.clinical_score ELSE @,
     !.status = Get(result, "status", "critiquing")]

clinical_critique_node(state, result) ==
  [state EXCEPT
     !.empathy_score = IF Has(result, "empathy_score")
                         THEN result.empathy_score ELSE @,
     !.clinical_score = IF Has(result, "clinical_score")
                          THEN result.clinical_score ELSE @,
     !.active_agent = "ClinicalCritic",
     !.status = Get(result, "status", "critiquing")]

\* result.get("halted") is falsy when the key is missing: halted |-> FALSE
supervisor_node(state, result) ==
  LET s1 == [state EXCEPT !.active_agent = "Supervisor",
                          !.status = Get(result, "status", "deciding")]
  IN IF result.halted
       THEN [s1 EXCEPT !.halted = TRUE, !.status = "awaiting_approval"]
       ELSE s1

\* the results a node's collaborator may give
ResultsOf(node) ==
  CASE node = "draft" -> DrafterResults
    [] node = "safety_review" -> SafetyResults
    [] node = "clinical_critique" -> CriticResults
    [] node = "supervisor" -> SupervisorResults

\* the node function applied to a state and its collaborator's result
ApplyNode(node, state, result) ==
  CASE node = "draft" -> draft_node(state, result)
    [] node = "safety_review" -> safety_review_node(state, result)
    [] node = "clinical_critique" -> clinical_critique_node(state, result)
    [] node = "supervisor" -> supervisor_node(state, result)

(* ----------------------------------------------------------------- router *)
\* the tags `tag in status` finds in a status string
StatusTags(status) ==
  CASE status = "needs_revision" -> {"needs_revision"}
    [] status = "ready_for_review" -> {"ready_for_review"}
    [] status = "awaiting_review" -> {"awaiting_review"}
    [] status = "needs_revision before ready_for_review" ->
         {"needs_revision", "ready_for_review"}
    [] status = "ready_for_review, awaiting_review" ->
         {"ready_for_review", "awaiting_review"}
    [] OTHER -> {}

\* the router with its first two tests exchanged
should_continue_approved_first(state) ==
  IF state.human_approved THEN "end"
  ELSE IF state.halted THEN "halt"
  ELSE IF state.active_agent = "Drafter" THEN "safety_review"
  ELSE IF state.active_agent = "SafetyGuardian" THEN "clinical_critique"
  ELSE IF state.active_agent = "ClinicalCritic" THEN "supervisor"
  ELSE IF state.active_agent = "Supervisor" THEN
         IF "needs_revision" \in StatusTags(state.status) THEN "draft"
         ELSE IF "ready_for_review" \in StatusTags(state.status)
                 \/ "awaiting_review" \in StatusTags(state.status) THEN "halt"
         ELSE "end"
  ELSE IF ~Truthy(state.current_draft) THEN "draft"
  ELSE "supervisor"

\* the router deciding row 7 by the draft history in place of the current draft
should_continue_by_history(state) ==
  IF state.halted THEN "halt"
  ELSE IF state.human_approved THEN "end"
  ELSE IF state.active_agent = "Drafter" THEN "safety_review"
  ELSE IF state.active_agent = "SafetyGuardian" THEN "clinical_critique"
  ELSE IF state.active_agent = "ClinicalCritic" THEN "supervisor"
  ELSE IF state.active_agent = "Supervisor" THEN
         IF "needs_revision" \in StatusTags(state.status) THEN "draft"
         ELSE IF "ready_for_review" \in StatusTags(state.status)
                 \/ "awaiting_review" \in StatusTags(state.status) THEN "halt"
         ELSE "end"
  ELSE IF state.draft_history = <<>> THEN "draft"
  ELSE "supervisor"

should_continue(state) ==
  IF state.halted THEN "halt"
  ELSE IF state.human_approved THEN "end"
  ELSE IF state.active_agent = "Drafter" THEN "safety_review"
  ELSE IF state.active_agent = "SafetyGuardian" THEN "clinical_critique"
  ELSE IF state.active_agent = "ClinicalCritic" THEN "supervisor"
  ELSE IF state.active_agent = "Supervisor" THEN
         IF "needs_revision" \in StatusTags(state.status) THEN "draft"
         ELSE IF "ready_for_review" \in StatusTags(state.status)
                 \/ "awaiting_review" \in StatusTags(state.status) THEN "halt"
         ELSE "end"
  ELSE IF ~Truthy(state.current_draft) THEN "draft"
  ELSE "supervisor"

(* ------------------------------------------------------------------ graph *)
\* set_entry_point
EntryPoint == "draft"

\* the keys of the conditional-edge map of each node
EdgeKeys(node) ==
  CASE node = "draft" ->
         {"draft", "safety_review", "clinical_critique", "supervisor", "halt", "end"}
    [] node = "safety_review" ->
         {"draft", "clinical_critique", "supervisor", "halt", "end"}
    [] node = "clinical_critique" -> {"draft", "supervisor", "halt", "end"}
    [] node = "supervisor" ->
         {"draft", "clinical_critique", "supervisor", "halt", "end"}

\* the node a key of an edge map leads to
EdgeTarget(key) == IF key \in {"halt", "end"} THEN END ELSE key

\* the node that follows `node` on state `state`; "KeyError" when the router's
\* answer is no key of the node's edge map
NextAfter(node, state) ==
  IF should_continue(state) \in EdgeKeys(node)
    THEN EdgeTarget(should_continue(state))
    ELSE "KeyError"

(* ------------------------------------------------------------ checkpoints *)
\* the values of a thread that has no checkpoint (aget_state(...).values is empty)
NoValues == create_initial_state(None, 0)

NoCheckpoint == [exists |-> FALSE, values |-> NoValues, next |-> END, last |-> START]

\* aupdate_state(config, values) without as_node: the update is applied as if the
\* node that wrote last had returned `values` (every key of the state, so the
\* values are replaced), and that node's outgoing edge decides what runs next;
\* on a thread without checkpoint the writer is the graph's start, whose edge
\* leads to the entry point
UpdateNext(cp, values) ==
  IF ~cp.exists \/ cp.last = START THEN EntryPoint ELSE NextAfter(cp.last, values)

UpdateState(cp, values) ==
  [exists |-> TRUE, values |-> values, next |-> UpdateNext(cp, values),
   last |-> IF cp.exists THEN cp.last ELSE START]

\* the checkpoint a run writes after node `node` produced `values`
StepCheckpoint(node, values) ==
  [exists |-> TRUE, values |-> values, next |-> NextAfter(node, values), last |-> node]

(* ------------------------------------------------------------- SSE events *)
NoEvent == [event |-> "none", node |-> None, state |-> NoValues]

Event(kind, node, state) == [event |-> kind, node |-> node, state |-> state]

\* the events of the current stream call: how many, how many of them final
\* (complete, halted, error), and the last one
NoEvents == [count |-> 0, finals |-> 0, last |-> NoEvent]

Emit(ev, e) ==
  [count |-> ev.count + 1,
   finals |-> ev.finals + (IF e.event \in {"complete", "halted", "error"} THEN 1 ELSE 0),
   last |-> e]

(* ------------------------------------------------------------------- runs *)
\* pc: idle, sleep (background task scheduled), load (astream called, checkpoint
\* not yet read), step (node `next` is executing), check (the consumer handles the
\* event of the step), final (stream: the loop is over), done, failed.
\* mem and next are the run's own copy of the state; base is the checkpoint that
\* copy was read from or written as.  trace, decision and afterHalt are history:
\* the nodes this run executed, what the supervisor returned last (its status and
\* whether it asked to halt), and 1 + the steps completed since a halt request
\* persisted while the run was active (0: none did).  halt[s].midrun is history
\* too: the runs that were active when the halt request read the state.
IdleRun ==
  [pc |-> "idle", mem |-> NoValues, next |-> END, base |-> NoCheckpoint,
   trace |-> <<>>, decision |-> <<None, FALSE>>, afterHalt |-> 0]

Active(r) == r.pc \in {"step", "check"}

IdleHalt ==
  [pc |-> "idle", n |-> 0, snap |-> NoCheckpoint, resp |-> "none", midrun |-> {}]

IdleApprove ==
  [pc |-> "idle", n |-> 0, content |-> None, snap |-> NoCheckpoint,
   updated |-> NoValues, has_edits |-> FALSE, resp |-> "none"]

IdleStream == [pc |-> "idle", n |-> 0, resp |-> "none"]

\* the requests session s has received
Requests(s) == halt[s].n + appr[s].n + strm[s].n

NoGhost == [stale |-> FALSE]

\* no call of a function under examination
NoProbe ==
  [fn |-> "none", state |-> NoValues, out |-> "pending",
   state2 |-> NoValues, out2 |-> "pending"]

Init ==
  /\ store = [s \in Sessions |-> NoCheckpoint]
  /\ intents = [s \in Sessions |-> None]
  /\ run = [s \in Sessions |-> [r \in RunIds |-> IdleRun]]
  /\ halt = [s \in Sessions |-> IdleHalt]
  /\ appr = [s \in Sessions |-> IdleApprove]
  /\ strm = [s \in Sessions |-> IdleStream]
  /\ events = [s \in Sessions |-> NoEvents]
  /\ ghost = [s \in Sessions |-> NoGhost]
  /\ probe = NoProbe

(* ----------------------------------------------------------------- create *)
\* session id s has not been used: the id create_protocol generates when the
\* request names none
Fresh(s) == ~store[s].exists /\ intents[s] = None /\ run[s]["bg"].pc = "idle"

\* create_protocol, with the session id of the request or a generated one (the
\* model follows one background task of a session at a time): the intent goes
\* to the temporary storage, the seed state is written with aupdate_state (an
\* error of the store is logged and swallowed: ok = FALSE), the temporary entry
\* is dropped when the write succeeded, and the background task is scheduled
create_protocol(s, intent, ok) ==
  /\ run[s]["bg"].pc \in {"idle", "done", "failed"}
  /\ store' = [store EXCEPT ![s] =
       IF ok THEN UpdateState(@, create_initial_state(intent, MaxIterations)) ELSE @]
  /\ intents' = [intents EXCEPT ![s] = IF ok THEN None ELSE intent]
  /\ run' = [run EXCEPT ![s]["bg"] = [IdleRun EXCEPT !.pc = "sleep"]]
  /\ UNCHANGED <<halt, appr, strm, events, ghost, probe>>

(* ---------------------------------------------------------- graph execution *)
\* astream(None, config) / ainvoke(None, config): the run reads the thread's
\* checkpoint once and continues with the node it names; with no checkpoint
\* there is no input and the call raises
Loaded(cp, endpc) ==
  [IdleRun EXCEPT !.pc = IF ~cp.exists THEN "failed"
                         ELSE IF cp.next = END THEN endpc ELSE "step",
                  !.mem = cp.values, !.next = cp.next, !.base = cp]

\* start_workflow_background, after its sleep
start_workflow_background(s) ==
  /\ run[s]["bg"].pc = "sleep"
  /\ run' = [run EXCEPT ![s]["bg"] = Loaded(store[s], "done")]
  /\ UNCHANGED <<store, intents, halt, appr, strm, events, ghost, probe>>

\* where a run goes after a step.  The stream endpoint handles the event before
\* the graph goes on.  The background task's handling of an event reads the state
\* back and breaks out of the loop over the event's nodes only, never out of the
\* loop over astream: it changes nothing, and the run goes straight on, as under
\* ainvoke
AfterStepPc(r, nxt) ==
  IF r = "st" THEN "check" ELSE IF nxt = END THEN "done" ELSE "step"

\* one super-step of a run: the node named by `next` runs on the run's own copy
\* of the state with the collaborator's result, the router picks the next node
\* from the node's edge map, and the run writes its checkpoint
Step(s, r, rounds) ==
  /\ run[s][r].pc = "step"
  /\ run[s][r].next = "draft" => run[s][r].mem.iteration_count < rounds
  /\ \E result \in ResultsOf(run[s][r].next) :
       LET node == run[s][r].next
           values == ApplyNode(node, run[s][r].mem, result)
           cp == StepCheckpoint(node, values)
       IN IF cp.next = "KeyError"
            THEN /\ run' = [run EXCEPT ![s][r].pc = "failed"]
                 /\ UNCHANGED <<store, ghost>>
            ELSE /\ store' = [store EXCEPT ![s] = cp]
                 /\ run' = [run EXCEPT ![s][r] =
                      [@ EXCEPT !.pc = AfterStepPc(r, cp.next),
                                !.mem = values, !.next = cp.next, !.base = cp,
                                !.trace = Append(@, node),
                                !.decision = IF node = "supervisor"
                                               THEN <<Get(result, "status", None), result.halted>>
                                               ELSE @,
                                !.afterHalt = IF @ = 0 THEN 0 ELSE @ + 1]]
                 /\ ghost' = [ghost EXCEPT ![s].stale =
                      @ \/ store[s] /= run[s][r].base]
  /\ UNCHANGED <<intents, halt, appr, strm, events, probe>>

\* a step whose collaborator call raises, writing an incremented iteration count
StepFailsCounting(s, r) ==
  /\ run[s][r].pc = "step"
  /\ run' = [run EXCEPT ![s][r].pc = "failed"]
  /\ store' = [store EXCEPT ![s].values.iteration_count = @ + 1]
  /\ UNCHANGED <<intents, halt, appr, strm, events, ghost, probe>>

\* a step whose collaborator call raises: the call is the node's first
\* statement, so the node has changed nothing; the exception leaves the graph
\* without a checkpoint for the step and ends the run in its caller's handler
StepFails(s, r) ==
  /\ run[s][r].pc = "step"
  /\ run' = [run EXCEPT ![s][r].pc = "failed"]
  /\ UNCHANGED <<store, intents, halt, appr, strm, events, ghost, probe>>

(* ----------------------------------------------------------------- stream *)
\* the `halted or awaiting_approval` test the stream endpoint makes on the state they
\* read back after an event
\* the test left out
HaltedStateNever(values) == FALSE

HaltedState(values) == values.halted \/ values.status = "awaiting_approval"

\* event_generator up to its first await after aget_state: a completed or halted
\* session is answered with one event and nothing runs; a session without
\* checkpoint is seeded from the temporary storage, or answered with an error;
\* otherwise the graph is about to be resumed
stream_protocol(s) ==
  /\ strm[s].pc = "idle"
  /\ Requests(s) < MaxRequests
  /\ run[s]["st"].pc \in {"idle", "done", "failed"}
  /\ LET cp == store[s]
         finish(kind) ==
           /\ events' = [events EXCEPT ![s] = Emit(NoEvents, Event(kind, None, cp.values))]
           /\ strm' = [strm EXCEPT ![s] = [pc |-> "idle", n |-> @.n + 1, resp |-> kind]]
         proceed(pc) ==
           /\ events' = [events EXCEPT ![s] = NoEvents]
           /\ strm' = [strm EXCEPT ![s] = [pc |-> pc, n |-> @.n + 1, resp |-> "none"]]
     IN IF cp.exists /\ cp.values.status = "completed" THEN finish("complete")
        ELSE IF cp.exists /\ HaltedState(cp.values) THEN finish("halted")
        ELSE IF ~cp.exists /\ intents[s] = None THEN finish("error")
        ELSE IF ~cp.exists THEN proceed("seed")
        ELSE proceed("start")
  /\ run' = [run EXCEPT ![s]["st"] = IdleRun]
  /\ UNCHANGED <<store, intents, halt, appr, ghost, probe>>

\* event_generator, no checkpoint but a stored intent: the seed state is written
\* and the temporary entry dropped
StreamSeed(s) ==
  /\ strm[s].pc = "seed"
  /\ store' = [store EXCEPT ![s] =
       UpdateState(@, create_initial_state(intents[s], MaxIterations))]
  /\ intents' = [intents EXCEPT ![s] = None]
  /\ strm' = [strm EXCEPT ![s].pc = "start"]
  /\ ghost' = [ghost EXCEPT ![s].stale = @ \/ store[s].exists]
  /\ UNCHANGED <<run, halt, appr, events, probe>>

\* event_generator: workflow.astream(None, config) starts
StreamStart(s) ==
  /\ strm[s].pc = "start"
  /\ run' = [run EXCEPT ![s]["st"] = Loaded(store[s], "final")]
  /\ strm' = [strm EXCEPT ![s].pc = "run"]
  /\ UNCHANGED <<store, intents, halt, appr, events, ghost, probe>>

\* event_generator, the body of its loop over the events: the state is read back
\* and sent as a state_update; when it is halted a halted event follows and the
\* loop over the event's nodes is left; the loop over astream goes on
StreamEvent(s) ==
  /\ run[s]["st"].pc = "check"
  /\ LET full_state == store[s].values
         node == run[s]["st"].trace[Len(run[s]["st"].trace)]
         e1 == Emit(events[s], Event("state_update", node, full_state))
     IN events' = [events EXCEPT ![s] =
          IF HaltedState(full_state)
            THEN Emit(e1, Event("halted", node, full_state)) ELSE e1]
  /\ run' = [run EXCEPT ![s]["st"].pc =
       IF run[s]["st"].next = END THEN "final" ELSE "step"]
  /\ UNCHANGED <<store, intents, halt, appr, strm, ghost, probe>>

\* event_generator after the loop: the final state is read and sent as complete;
\* an exception of the run is sent as an error event instead
StreamFinal(s) ==
  /\ strm[s].pc = "run"
  /\ run[s]["st"].pc \in {"final", "failed"}
  /\ LET kind == IF run[s]["st"].pc = "final" THEN "complete" ELSE "error"
     IN /\ events' = [events EXCEPT ![s] = Emit(@, Event(kind, None, store[s].values))]
        /\ strm' = [strm EXCEPT ![s] = [@ EXCEPT !.pc = "idle", !.resp = kind]]
  /\ run' = [run EXCEPT ![s]["st"].pc = "done"]
  /\ UNCHANGED <<store, intents, halt, appr, ghost, probe>>

(* ------------------------------------------------------------------- halt *)
\* halt_protocol up to aget_state: no checkpoint raises the 404, which the
\* handler's own `except Exception` turns into a 500
HaltRead(s) ==
  /\ halt[s].pc = "idle"
  /\ Requests(s) < MaxRequests
  /\ halt' = [halt EXCEPT ![s] =
       IF store[s].exists
         THEN [pc |-> "read", n |-> @.n + 1, snap |-> store[s], resp |-> "none",
               midrun |-> {r \in RunIds : Active(run[s][r])}]
         ELSE [pc |-> "idle", n |-> @.n + 1, snap |-> NoCheckpoint, resp |-> "500",
               midrun |-> {}]]
  /\ UNCHANGED <<store, intents, run, appr, strm, events, ghost, probe>>

\* the halted copy with the safety score dropped
HaltUpdateDroppingScore(values) ==
  add_agent_note([values EXCEPT !.status = "awaiting_approval", !.halted = TRUE,
                                !.safety_score = None],
                 "Human", "Workflow halted for review", "warning")

\* the state halt_protocol writes: the snapshot it read, halted, with its note
HaltUpdate(values) ==
  add_agent_note([values EXCEPT !.status = "awaiting_approval", !.halted = TRUE],
                 "Human", "Workflow halted for review", "warning")

\* halt_protocol writing its halted copy to every thread of the checkpointer
HaltWriteEveryThread(s) ==
  /\ halt[s].pc = "read"
  /\ store' = [t \in DOMAIN store |-> UpdateState(store[t], HaltUpdate(halt[s].snap.values))]
  /\ halt' = [halt EXCEPT ![s] = [@ EXCEPT !.pc = "idle", !.resp = "200"]]
  /\ run' = [run EXCEPT ![s] =
       [r \in RunIds |->
          IF Active(run[s][r]) /\ run[s][r].afterHalt = 0
            THEN [run[s][r] EXCEPT !.afterHalt = 1] ELSE run[s][r]]]
  /\ ghost' = [ghost EXCEPT ![s].stale = @ \/ store[s] /= halt[s].snap]
  /\ UNCHANGED <<intents, appr, strm, events, probe>>

\* halt_protocol from aget_state's return: aupdate_state with the halted copy
HaltWrite(s) ==
  /\ halt[s].pc = "read"
  /\ store' = [store EXCEPT ![s] = UpdateState(@, HaltUpdate(halt[s].snap.values))]
  /\ halt' = [halt EXCEPT ![s] = [@ EXCEPT !.pc = "idle", !.resp = "200"]]
  /\ run' = [run EXCEPT ![s] =
       [r \in RunIds |->
          IF Active(run[s][r]) /\ run[s][r].afterHalt = 0
            THEN [run[s][r] EXCEPT !.afterHalt = 1] ELSE run[s][r]]]
  /\ ghost' = [ghost EXCEPT ![s].stale = @ \/ store[s] /= halt[s].snap]
  /\ UNCHANGED <<intents, appr, strm, events, probe>>

(* ---------------------------------------------------------------- approve *)
\* what a request may carry as approved_content
ApprovedContents == {None, " draft ", "edited"}

\* str.strip on the contents the model uses
Strip(x) == IF x = " draft " THEN "draft" ELSE x

\* approve_protocol, lines 476-502: the copy of the state with the edits, the
\* approval note and the approval flags
ApproveHasEdits(values, content) ==
  Truthy(content) /\ Strip(content) /= Strip(values.current_draft)

\* the approval counting its edits as a new version
ApproveUpdateVersioning(values, content) ==
  LET edited == IF ApproveHasEdits(values, content)
                  THEN [values EXCEPT !.current_draft = content, !.human_edits = content,
                                      !.current_version = @ + 1]
                  ELSE values
      noted == add_agent_note(edited, "Human",
                 IF ApproveHasEdits(values, content)
                   THEN "Protocol approved and finalized (with edits)"
                   ELSE "Protocol approved and finalized", "info")
  IN [noted EXCEPT !.human_approved = TRUE, !.halted = FALSE, !.status = "approved"]

ApproveUpdate(values, content) ==
  LET edited == IF ApproveHasEdits(values, content)
                  THEN [values EXCEPT !.current_draft = content, !.human_edits = content]
                  ELSE values
      noted == add_agent_note(edited, "Human",
                 IF ApproveHasEdits(values, content)
                   THEN "Protocol approved and finalized (with edits)"
                   ELSE "Protocol approved and finalized", "info")
  IN [noted EXCEPT !.human_approved = TRUE, !.halted = FALSE, !.status = "approved"]

\* approve_protocol up to aget_state: no checkpoint raises the 404, and content
\* for a session without draft raises on None.strip(); the handler's
\* `except Exception` turns both into a 500
ApproveRead(s, content) ==
  /\ appr[s].pc = "idle"
  /\ Requests(s) < MaxRequests
  /\ run[s]["ap"].pc \in {"idle", "done", "failed"}
  /\ appr' = [appr EXCEPT ![s] =
       IF ~store[s].exists \/ (Truthy(content) /\ store[s].values.current_draft = None)
         THEN [IdleApprove EXCEPT !.n = appr[s].n + 1, !.content = content,
                                  !.resp = "500"]
         ELSE [IdleApprove EXCEPT !.pc = "read", !.n = appr[s].n + 1,
                                  !.content = content, !.snap = store[s],
                                  !.updated = ApproveUpdate(store[s].values, content),
                                  !.has_edits = ApproveHasEdits(store[s].values, content)]]
  /\ UNCHANGED <<store, intents, run, halt, strm, events, ghost, probe>>

\* approve_protocol: aupdate_state with the approved copy
ApproveWrite(s) ==
  /\ appr[s].pc = "read"
  /\ store' = [store EXCEPT ![s] = UpdateState(@, appr[s].updated)]
  /\ appr' = [appr EXCEPT ![s].pc = "wrote"]
  /\ ghost' = [ghost EXCEPT ![s].stale = @ \/ store[s] /= appr[s].snap]
  /\ UNCHANGED <<intents, run, halt, strm, events, probe>>

\* approve_protocol: workflow.ainvoke(None, config) starts
ApproveInvoke(s) ==
  /\ appr[s].pc = "wrote"
  /\ run' = [run EXCEPT ![s]["ap"] = Loaded(store[s], "done")]
  /\ appr' = [appr EXCEPT ![s].pc = "invoke"]
  /\ UNCHANGED <<store, intents, halt, strm, events, ghost, probe>>

\* approve_protocol after ainvoke: a result with status completed gets the
\* finalization note and is written back; an exception of the run is a 500
ApproveFinal(s) ==
  /\ appr[s].pc = "invoke"
  /\ run[s]["ap"].pc \in {"done", "failed"}
  /\ LET result == run[s]["ap"].mem
         final == run[s]["ap"].pc = "done" /\ result.status = "completed"
     IN /\ store' = [store EXCEPT ![s] =
             IF final
               THEN UpdateState(@, add_agent_note(result, "System",
                      "Protocol generation completed successfully", "info"))
               ELSE @]
        /\ ghost' = [ghost EXCEPT ![s].stale =
             @ \/ (final /\ store[s] /= run[s]["ap"].base)]
  /\ appr' = [appr EXCEPT ![s] =
       [@ EXCEPT !.pc = "idle",
                 !.resp = IF run[s]["ap"].pc = "done" THEN "200" ELSE "500"]]
  /\ UNCHANGED <<intents, run, halt, strm, events, probe>>

(* ---------------------------------------------------------- specification *)
Next ==
  \E s \in Sessions :
    \/ Fresh(s) /\ \E intent \in Intents, ok \in BOOLEAN : create_protocol(s, intent, ok)
    \/ start_workflow_background(s)
    \/ \E r \in RunIds : Step(s, r, MaxRaceDrafts)
    \/ \E r \in RunIds : StepFails(s, r)
    \/ stream_protocol(s)
    \/ StreamSeed(s)
    \/ StreamStart(s)
    \/ StreamEvent(s)
    \/ StreamFinal(s)
    \/ HaltRead(s)
    \/ HaltWrite(s)
    \/ \E content \in ApprovedContents : ApproveRead(s, content)
    \/ ApproveWrite(s)
    \/ ApproveInvoke(s)
    \/ ApproveFinal(s)

Spec == Init /\ [][Next]_vars

\* a session that is created and left to its background run
NextLoop ==
  \E s \in Sessions :
    \/ Fresh(s) /\ \E intent \in Intents, ok \in BOOLEAN : create_protocol(s, intent, ok)
    \/ start_workflow_background(s)
    \/ Step(s, "bg", MaxDrafts)
    \/ StepFails(s, "bg")

SpecLoop == Init /\ [][NextLoop]_vars

(* ------------------------------------------------------- the router alone *)
\* the states the router is called on: every combination of the fields it reads
\* (and of the iteration count, which it does not read)
RouterStatuses ==
  {"initializing", "needs_revision", "ready_for_review", "awaiting_review",
   "needs_revision before ready_for_review", "ready_for_review, awaiting_review",
   "completed"}

RouterInputs ==
  { [NoValues EXCEPT !.max_iterations = MaxIterations,
                     !.halted = h, !.human_approved = a, !.active_agent = g,
                     !.status = st, !.current_draft = d, !.iteration_count = i] :
      h \in BOOLEAN, a \in BOOLEAN,
      g \in {None, "Drafter", "SafetyGuardian", "ClinicalCritic", "Supervisor"},
      st \in RouterStatuses, d \in {None, "", "draft"},
      i \in {0, MaxIterations} }

\* states that agree with `state` on halted, human_approved, active_agent,
\* status, current_draft, iteration_count and max_iterations: `state` itself, and
\* `state` with other scores, with another history and other notes, and with
\* another intent and other edits
OtherFields(state) ==
  { state,
    [state EXCEPT !.safety_score = "0.9", !.empathy_score = "0.9",
                  !.clinical_score = "0.9"],
    [add_agent_note(state, "Supervisor", "note", "info") EXCEPT
       !.current_version = 2,
       !.draft_history = << [content |-> "older", version |-> 1, iteration |-> 1,
                             created_by |-> "Drafter"],
                            [content |-> "old", version |-> 2, iteration |-> 2,
                             created_by |-> "Drafter"] >>],
    [state EXCEPT !.user_intent = "intent", !.human_edits = "edited"] }

InitRouter ==
  /\ store = [s \in Sessions |-> NoCheckpoint]
  /\ intents = [s \in Sessions |-> None]
  /\ run = [s \in Sessions |-> [r \in RunIds |-> IdleRun]]
  /\ halt = [s \in Sessions |-> IdleHalt]
  /\ appr = [s \in Sessions |-> IdleApprove]
  /\ strm = [s \in Sessions |-> IdleStream]
  /\ events = [s \in Sessions |-> NoEvents]
  /\ ghost = [s \in Sessions |-> NoGhost]
  /\ \E state \in RouterInputs : \E state2 \in OtherFields(state) :
       probe = [fn |-> "should_continue", state |-> state, out |-> "pending",
                state2 |-> state2, out2 |-> "pending"]

\* one call of should_continue
Route ==
  /\ probe.fn = "should_continue"
  /\ probe.out = "pending"
  /\ probe' = [probe EXCEPT !.out = should_continue(probe.state)]
  /\ UNCHANGED <<store, intents, run, halt, appr, strm, events, ghost>>

\* another call of should_continue, before or after the first
RouteAgain ==
  /\ probe.fn = "should_continue"
  /\ probe.out2 = "pending"
  /\ probe' = [probe EXCEPT !.out2 = should_continue(probe.state2)]
  /\ UNCHANGED <<store, intents, run, halt, appr, strm, events, ghost>>

NextRouter == Route \/ RouteAgain

SpecRouter == InitRouter /\ [][NextRouter]_vars

(* -------------------------------------------------------- the nodes alone *)
\* states a node is called on: the seed state, and a state with a draft and
\* scores that any of the four nodes signed last, each also with a halt request
\* persisted
NodeStates ==
  LET seed == create_initial_state("intent", MaxIterations)
      revised ==
        [seed EXCEPT
           !.status = "needs_revision", !.active_agent = "Supervisor",
           !.current_draft = "old", !.current_version = 1, !.iteration_count = 1,
           !.draft_history = << [content |-> "old", version |-> 1, iteration |-> 1,
                                 created_by |-> "Drafter"] >>,
           !.safety_checks = [no_harm |-> FALSE, evidence |-> TRUE],
           !.safety_score = "0.5", !.empathy_score = "0.5", !.clinical_score = "0.5"]
      signed == { [revised EXCEPT !.active_agent = a] :
                    a \in {"Drafter", "SafetyGuardian", "ClinicalCritic", "Supervisor"} }
  IN { [state EXCEPT !.halted = h] : state \in {seed} \cup signed, h \in BOOLEAN }

\* what a collaborator's answer may hold of the keys its node reads: any subset
\* of them, with contents of either kind
NodeResults(node) ==
  CASE node = "draft" ->
         { [present |-> P, current_draft |-> d, active_agent |-> a, status |-> st] :
             P \in SUBSET {"current_draft", "active_agent", "status"},
             d \in {"draft", ""},
             st \in {"drafted", "needs_revision", "ready_for_review"},
             a \in {"Drafter", "SafetyGuardian", "ClinicalCritic", "Supervisor", "Human"} }
    [] node = "safety_review" ->
         { [present |-> P, safety_checks |-> c, safety_score |-> "0.9",
            status |-> "reviewed"] :
             P \in SUBSET {"safety_checks", "safety_score", "status"},
             c \in {EmptyChecks, [no_harm |-> TRUE],
                    [no_harm |-> TRUE, tone |-> FALSE]} }
    [] node = "clinical_critique" ->
         { [present |-> P, empathy_score |-> "0.8", clinical_score |-> "0.7",
            status |-> "critiqued"] :
             P \in SUBSET {"empathy_score", "clinical_score", "status"} }
    [] node = "supervisor" -> SupervisorResults

InitNodes ==
  /\ store = [s \in Sessions |-> NoCheckpoint]
  /\ intents = [s \in Sessions |-> None]
  /\ run = [s \in Sessions |-> [r \in RunIds |-> IdleRun]]
  /\ halt = [s \in Sessions |-> IdleHalt]
  /\ appr = [s \in Sessions |-> IdleApprove]
  /\ strm = [s \in Sessions |-> IdleStream]
  /\ events = [s \in Sessions |-> NoEvents]
  /\ ghost = [s \in Sessions |-> NoGhost]
  /\ \E node \in {"draft", "safety_review", "clinical_critique", "supervisor"} :
       \E state \in NodeStates : \E result \in NodeResults(node) :
         probe = [fn |-> node, state |-> state, result |-> result,
                  out |-> "pending", state2 |-> state]

\* one call of a node function
CallNode ==
  /\ probe.fn \in {"draft", "safety_review", "clinical_critique", "supervisor"}
  /\ probe.out = "pending"
  /\ probe' = [probe EXCEPT !.out = "returned",
                            !.state2 = ApplyNode(probe.fn, probe.state, probe.result)]
  /\ UNCHANGED <<store, intents, run, halt, appr, strm, events, ghost>>

SpecNodes == InitNodes /\ [][CallNode]_vars

(* ------------------------------------------- create with a given session id *)
\* the intents of requests that name the session id themselves
GivenIntents == {"intent", "other intent"}

\* create requests that carry a session id, used or not, and the background
\* runs they start
NextGiven ==
  \E s \in Sessions :
    \/ \E intent \in GivenIntents, ok \in BOOLEAN : create_protocol(s, intent, ok)
    \/ start_workflow_background(s)
    \/ Step(s, "bg", MaxRaceDrafts)
    \/ StepFails(s, "bg")

SpecGiven == Init /\ [][NextGiven]_vars

(* ----------------------------------------------------------- two sessions *)
\* two session ids, as two thread_ids of the one checkpointer and two keys of
\* _session_intents
TwoSessions == {"s1", "s2"}

InitTwo ==
  /\ store = [s \in TwoSessions |-> NoCheckpoint]
  /\ intents = [s \in TwoSessions |-> None]
  /\ run = [s \in TwoSessions |-> [r \in RunIds |-> IdleRun]]
  /\ halt = [s \in TwoSessions |-> IdleHalt]
  /\ appr = [s \in TwoSessions |-> IdleApprove]
  /\ strm = [s \in TwoSessions |-> IdleStream]
  /\ events = [s \in TwoSessions |-> NoEvents]
  /\ ghost = [s \in TwoSessions |-> NoGhost]
  /\ probe = NoProbe

\* the background run of session s is over
Quiet(s) == run[s]["bg"].pc \in {"done", "failed"}

\* the operations of two sessions in any interleaving; within a session the
\* requests come after the background run
NextTwo ==
  \E s \in TwoSessions :
    \/ Fresh(s) /\ \E intent \in Intents, ok \in BOOLEAN : create_protocol(s, intent, ok)
    \/ start_workflow_background(s)
    \/ \E r \in RunIds : Step(s, r, MaxRaceDrafts)
    \/ \E r \in RunIds : StepFails(s, r)
    \/ Quiet(s) /\ stream_protocol(s)
    \/ StreamSeed(s)
    \/ StreamStart(s)
    \/ StreamEvent(s)
    \/ StreamFinal(s)
    \/ Quiet(s) /\ HaltRead(s)
    \/ HaltWrite(s)
    \/ Quiet(s) /\ \E content \in ApprovedContents : ApproveRead(s, content)
    \/ ApproveWrite(s)
    \/ ApproveInvoke(s)
    \/ ApproveFinal(s)

SpecTwo == InitTwo /\ [][NextTwo]_vars

(* ------------------------------------------------------------------ claims *)
\* the persisted state of session s
Persisted(s) == store[s].values

\* C1: in every persisted state of every session iteration_count <= max_iterations
C1_IterationWithinCap ==
  \A s \in Sessions :
    store[s].exists => Persisted(s).iteration_count <= Persisted(s).max_iterations

\* rows 6 and 7 of the decision table select draft: the supervisor's status
\* contains needs_revision, or no step has run and there is no draft
WouldBeDraft(state) ==
  /\ ~state.halted
  /\ ~state.human_approved
  /\ \/ state.active_agent = "Supervisor" /\ "needs_revision" \in StatusTags(state.status)
     \/ /\ state.active_agent \notin {"Drafter", "SafetyGuardian", "ClinicalCritic", "Supervisor"}
        /\ ~Truthy(state.current_draft)

\* C2: on a state with iteration_count >= max_iterations for which the table
\* would select draft, the router answers halt
C2_RouterForcesHalt ==
  \A s \in Sessions :
    (store[s].exists
       /\ Persisted(s).iteration_count >= Persisted(s).max_iterations
       /\ WouldBeDraft(Persisted(s)))
      => should_continue(Persisted(s)) = "halt"

\* how often node n occurs in a run's trace
RECURSIVE Occurrences(_, _)
Occurrences(trace, n) ==
  IF trace = <<>> THEN 0
  ELSE (IF Head(trace) = n THEN 1 ELSE 0) + Occurrences(Tail(trace), n)

\* C3: a run stops whatever the supervisor decides: once it has drafted
\* max_iterations times and the supervisor asks for a revision again, the run has
\* stopped, and it never executes more draft steps than max_iterations
C3_RunStopsAtCap ==
  \A s \in Sessions : \A r \in RunIds :
    /\ Occurrences(run[s][r].trace, "draft") <= MaxIterations
    /\ (run[s][r].trace /= <<>>
          /\ run[s][r].mem.active_agent = "Supervisor"
          /\ run[s][r].decision = <<"needs_revision", FALSE>>
          /\ run[s][r].mem.iteration_count >= run[s][r].mem.max_iterations)
         => run[s][r].next = END

\* C4: at most one run of a session is executing steps at any time
C4_OneActiveRun ==
  \A s \in Sessions : Cardinality({r \in RunIds : Active(run[s][r])}) <= 1

\* C5: every write to the checkpoint store is computed from the session's latest
\* committed state: no write is based on a snapshot older than the checkpoint it
\* replaces
C5_WritesFromLatest ==
  \A s \in Sessions : ~ghost[s].stale

\* C6: after a halt request has persisted during a run, the run completes at most
\* the step that was in flight, and when it has stopped the persisted state is
\* still halted and awaiting approval
C6_HaltStopsRun ==
  \A s \in Sessions : \A r \in RunIds :
    run[s][r].afterHalt >= 1 =>
      /\ run[s][r].afterHalt <= 2
      /\ run[s][r].pc \in {"final", "done"} =>
           Persisted(s).halted /\ Persisted(s).status = "awaiting_approval"

\* what the steps write: the draft, its history and version, the iteration count,
\* the scores and checks, and the step that wrote last
StepFields(state) ==
  [ current_draft |-> state.current_draft,
    draft_history |-> state.draft_history,
    current_version |-> state.current_version,
    iteration_count |-> state.iteration_count,
    active_agent |-> state.active_agent,
    safety_checks |-> state.safety_checks,
    safety_score |-> state.safety_score,
    empathy_score |-> state.empathy_score,
    clinical_score |-> state.clinical_score ]

\* C7: when halt was called while a step of a run was in flight, then once the
\* halt is written and the run has stopped, the persisted state holds what the
\* run's steps produced
C7_HaltKeepsStepResult ==
  \A s \in Sessions : \A r \in halt[s].midrun :
    (halt[s].resp = "200" /\ run[s][r].pc \in {"final", "done"})
      => StepFields(Persisted(s)) = StepFields(run[s][r].mem)

\* C8: approve on a session halted for approval leaves, once it has returned, the
\* persisted state with status completed, and its resumed run executed no step
C8_ApproveCompletes ==
  \A s \in Sessions :
    (appr[s].resp = "200"
       /\ appr[s].snap.values.halted
       /\ appr[s].snap.values.status = "awaiting_approval")
      => /\ run[s]["ap"].trace = <<>>
         /\ Persisted(s).status = "completed"

\* C9: when the supervisor answers ready_for_review on the first pass, the run
\* has executed exactly draft, safety_review, clinical_critique, supervisor, has
\* stopped, and the persisted state is awaiting_approval and halted
C9_ReadyForReviewHalts ==
  \A s \in Sessions :
    (Len(run[s]["bg"].trace) >= 4
       /\ run[s]["bg"].mem.iteration_count = 1
       /\ run[s]["bg"].decision[1] = "ready_for_review")
      => /\ run[s]["bg"].trace =
              <<"draft", "safety_review", "clinical_critique", "supervisor">>
         /\ run[s]["bg"].next = END
         /\ Persisted(s).status = "awaiting_approval"
         /\ Persisted(s).halted

Absorbing(cp) ==
  cp.exists /\ (cp.values.halted \/ cp.values.status \in {"awaiting_approval", "completed"})

\* C11: no step is invoked on a session whose persisted state is halted,
\* awaiting_approval or completed: whenever a run begins a step, the first step of
\* a run included, the state persisted at that moment is none of these
C11_NoStepOnHalted ==
  [][\A s \in Sessions : \A r \in RunIds :
       (run'[s][r].pc = "step"
          /\ (run[s][r].pc /= "step" \/ run'[s][r].trace /= run[s][r].trace))
         => ~Absorbing(store'[s])]_vars

\* the first row of a table of <<condition, outcome>> rows whose condition holds
FirstMatch(rows) ==
  rows[CHOOSE i \in 1..Len(rows) :
         rows[i][1] /\ \A j \in 1..(i - 1) : ~rows[j][1]][2]

\* the decision table, with the router's names for supervise ("supervisor") and
\* terminate ("end")
DecisionTable(state) ==
  << <<state.halted, "halt">>,
     <<state.human_approved, "end">>,
     <<state.active_agent = "Drafter", "safety_review">>,
     <<state.active_agent = "SafetyGuardian", "clinical_critique">>,
     <<state.active_agent = "ClinicalCritic", "supervisor">>,
     <<state.active_agent = "Supervisor",
       FirstMatch(<< <<"needs_revision" \in StatusTags(state.status), "draft">>,
                     <<StatusTags(state.status)
                         \cap {"ready_for_review", "awaiting_review"} /= {}, "halt">>,
                     <<TRUE, "end">> >>)>>,
     <<~Truthy(state.current_draft), "draft">>,
     <<TRUE, "supervisor">> >>

\* C12: on every state the router returns the outcome of the first matching row
\* of the eight-row decision table; a halted state yields halt even when it is
\* approved as well
C12_RouterTable ==
  (probe.fn = "should_continue" /\ probe.out /= "pending") =>
    /\ probe.out = FirstMatch(DecisionTable(probe.state))
    /\ probe.state.halted => probe.out = "halt"

\* the router was called on a state that is halted and approved, and said halt
C12_Witness ==
  /\ probe.fn = "should_continue"
  /\ probe.state.halted /\ probe.state.human_approved
  /\ probe.out = "halt"

\* the fields the decision may depend on
RouterFields(state) ==
  <<state.halted, state.human_approved, state.active_agent, state.status,
    state.current_draft, state.iteration_count, state.max_iterations>>

\* C13: two evaluations of the router on states with the same halted,
\* human_approved, active_agent, status, current_draft, iteration_count and
\* max_iterations return the same decision, whatever the other fields hold and in
\* whichever order the evaluations are made
C13_RouterDeterministic ==
  (probe.fn = "should_continue"
     /\ probe.out /= "pending" /\ probe.out2 /= "pending"
     /\ RouterFields(probe.state) = RouterFields(probe.state2))
    => probe.out = probe.out2

\* the router was evaluated on two states that differ in their history and notes
\* only, and decided both
C13_Witness ==
  /\ probe.fn = "should_continue"
  /\ probe.state.draft_history /= probe.state2.draft_history
  /\ RouterFields(probe.state) = RouterFields(probe.state2)
  /\ probe.out = "draft" /\ probe.out2 = "draft"

\* the step the pipeline has after step n
PipelineSuccessor(n) ==
  CASE n = "draft" -> "safety_review"
    [] n = "safety_review" -> "clinical_critique"
    [] n = "clinical_critique" -> "supervisor"
    [] n = "supervisor" -> "draft"

\* C14: within a run the steps follow the pipeline order: every step the run
\* executed after another one, and the step it is about to execute, is the
\* pipeline's successor of the step before it (a new pass begins with draft after
\* supervisor); otherwise the run has stopped
C14_PipelineOrder ==
  \A s \in Sessions : \A r \in RunIds :
    LET trace == run[s][r].trace
    IN /\ \A i \in 1..(Len(trace) - 1) : trace[i + 1] = PipelineSuccessor(trace[i])
       /\ (trace /= <<>> /\ run[s][r].pc = "step")
            => run[s][r].next = PipelineSuccessor(trace[Len(trace)])

\* a run went through two passes of the pipeline
C14_Witness ==
  \E s \in Sessions :
    run[s]["bg"].trace =
      <<"draft", "safety_review", "clinical_critique", "supervisor",
        "draft", "safety_review", "clinical_critique", "supervisor">>

\* the versions of a draft history count up from 1
NumberedFromOne(state) ==
  \A i \in 1..Len(state.draft_history) : state.draft_history[i].version = i

\* C15: in every state of every session, persisted or held by a run or a
\* request, the draft at (0-based) index i of draft_history has version i + 1
C15_VersionsNumbered ==
  \A s \in Sessions :
    /\ NumberedFromOne(Persisted(s))
    /\ \A r \in RunIds : NumberedFromOne(run[s][r].mem)
    /\ NumberedFromOne(halt[s].snap.values)
    /\ NumberedFromOne(appr[s].updated)

\* a session has persisted three drafts
C15_Witness ==
  \E s \in Sessions :
    /\ store[s].exists
    /\ Len(Persisted(s).draft_history) = 3
    /\ Persisted(s).draft_history[3].version = 3

\* the last note of a state
LastNote(state) == state.agent_notes[Len(state.agent_notes)]

\* what approve is to make of state `before` with content c: the state `after`
\* it writes has the draft and the edits of `before` and a plain approval note
\* when c is missing or equals the draft after trimming, and has c as draft and
\* as edits and the note with the marker when c differs from the draft
ApproveAsClaimed(before, c, after) ==
  /\ Len(after.agent_notes) = Len(before.agent_notes) + 1
  /\ IF ~Truthy(c)
        \/ (before.current_draft /= None /\ Strip(c) = Strip(before.current_draft))
       THEN /\ after.current_draft = before.current_draft
            /\ after.human_edits = before.human_edits
            /\ LastNote(after).note = "Protocol approved and finalized"
       ELSE /\ after.current_draft = c
            /\ after.human_edits = c
            /\ LastNote(after).note = "Protocol approved and finalized (with edits)"

\* C16: an approve request on an existing session goes on to write a state that
\* is, with respect to the state it read, what the claim says for its content
C16_ApproveEdits ==
  [][\A s \in Sessions :
       (appr'[s].n = appr[s].n + 1 /\ store[s].exists)
         => /\ appr'[s].pc = "read"
            /\ ApproveAsClaimed(Persisted(s), appr'[s].content, appr'[s].updated)]_vars

\* C17: once approve has returned on a session it found completed, the persisted
\* state is the state it found: no note appended, status still completed
C17_ApproveCompletedNoOp ==
  \A s \in Sessions :
    (appr[s].n >= 1 /\ appr[s].pc = "idle"
       /\ appr[s].snap.exists /\ appr[s].snap.values.status = "completed")
      => Persisted(s) = appr[s].snap.values

\* `after` is `before` halted: status awaiting_approval, halted, the notes of
\* `before` followed by the one halt note, every other field as in `before`
HaltFrame(before, after) ==
  /\ after.status = "awaiting_approval"
  /\ after.halted
  /\ Len(after.agent_notes) = Len(before.agent_notes) + 1
  /\ SubSeq(after.agent_notes, 1, Len(before.agent_notes)) = before.agent_notes
  /\ LastNote(after) = [agent_name |-> "Human", note |-> "Workflow halted for review",
                        priority |-> "warning"]
  /\ [after EXCEPT !.status = before.status, !.halted = before.halted,
                   !.agent_notes = before.agent_notes] = before

C19_SessionNotFound ==
  [][\A s \in Sessions :
       /\ (halt'[s].n = halt[s].n + 1 /\ ~store[s].exists)
            => (halt'[s].resp = "404" /\ store' = store)
       /\ (appr'[s].n = appr[s].n + 1 /\ ~store[s].exists)
            => (appr'[s].resp = "404" /\ store' = store)]_vars

\* C20: when create returns the session id (the background task is scheduled),
\* the seed state of the session is in the checkpoint store
C20_CreatePersistsSeed ==
  [][\A s \in Sessions :
       (run[s]["bg"].pc = "idle" /\ run'[s]["bg"].pc = "sleep")
         => /\ store'[s].exists
            /\ store'[s].values.status = "initializing"
            /\ store'[s].values.current_draft = None
            /\ store'[s].values.iteration_count = 0
            /\ ~store'[s].values.halted
            /\ ~store'[s].values.human_approved]_vars

\* C21: a step whose collaborator call fails is not applied: the run ends and the
\* checkpoint store holds what it held before, partial updates and the iteration
\* count included; and a run that starts later takes the state and the next
\* step from the stored checkpoint
C21_FailedStepNotApplied ==
  [][\A s \in Sessions : \A r \in RunIds :
       /\ (run[s][r].pc = "step" /\ run'[s][r].pc = "failed") => store'[s] = store[s]
       /\ (~Active(run[s][r]) /\ run'[s][r].pc = "step")
            => /\ run'[s][r].mem = store[s].values
               /\ run'[s][r].next = store[s].next]_vars

\* the background run failed in its safety review, after its draft step had
\* persisted, and a stream run resumed with the safety review on the state of the
\* draft step
C21_Witness ==
  \E s \in Sessions :
    /\ run[s]["bg"].pc = "failed"
    /\ run[s]["bg"].trace = <<"draft">>
    /\ run[s]["st"].trace = <<"safety_review">>
    /\ Persisted(s).iteration_count = 1
    /\ Len(Persisted(s).draft_history) = 1

\* a transition is an operation of session s: a run or a request of s moved
Operated(s) ==
  run'[s] /= run[s] \/ halt'[s] /= halt[s] \/ appr'[s] /= appr[s] \/ strm'[s] /= strm[s]

\* C22: sessions are isolated: the persisted state of a session (its checkpoint
\* and its stored intent) changes only in an operation of that session, and an
\* operation of one session changes nothing of any other session
C22_SessionsIsolated ==
  [][\A b \in TwoSessions :
       (store'[b] /= store[b] \/ intents'[b] /= intents[b])
         => /\ Operated(b)
            /\ \A a \in TwoSessions \ {b} :
                 /\ ~Operated(a)
                 /\ store'[a] = store[a]
                 /\ intents'[a] = intents[a]]_vars

\* one session was halted by request and the other approved with edits, each
\* holding its own state
C22_Witness ==
  /\ halt["s1"].resp = "200" /\ store["s1"].values.halted
  /\ store["s1"].values.human_edits = None
  /\ appr["s2"].resp = "200" /\ store["s2"].values.human_approved
  /\ store["s2"].values.human_edits = "edited"
  /\ ~store["s2"].values.halted

\* C23: the user_intent of a session never changes once the session has a
\* persisted state, whatever operation follows, a second create with the same
\* session id included
C23_IntentImmutable ==
  [][\A s \in Sessions :
       (store[s].exists /\ store'[s].exists)
         => store'[s].values.user_intent = store[s].values.user_intent]_vars

\* s is a prefix of t
IsPrefix(s, t) == Len(s) <= Len(t) /\ SubSeq(t, 1, Len(s)) = s

\* C24: draft_history and agent_notes are append-only and current_version never
\* decreases: across two successive persisted states of a session the earlier
\* history and the earlier notes are prefixes of the later ones
C24_AppendOnly ==
  [][\A s \in Sessions :
       (store[s].exists /\ store'[s].exists)
         => /\ IsPrefix(Persisted(s).draft_history, store'[s].values.draft_history)
            /\ IsPrefix(Persisted(s).agent_notes, store'[s].values.agent_notes)
            /\ Persisted(s).current_version <= store'[s].values.current_version]_vars

NodeReturned ==
  probe.fn \in {"draft", "safety_review", "clinical_critique", "supervisor"}
    /\ probe.out = "returned"

\* the name a step signs the state with
AgentOf(node) ==
  CASE node = "draft" -> "Drafter"
    [] node = "safety_review" -> "SafetyGuardian"
    [] node = "clinical_critique" -> "ClinicalCritic"
    [] node = "supervisor" -> "Supervisor"

\* C27: after a step has completed active_agent names that step, whatever the
\* collaborator returned
C27_ActiveAgentIsStep ==
  NodeReturned => probe.state2.active_agent = AgentOf(probe.fn)

\* C28: whenever the persisted state has halted = true its status is
\* awaiting_approval
C28_HaltedAwaitsApproval ==
  \A s \in Sessions :
    (store[s].exists /\ Persisted(s).halted) => Persisted(s).status = "awaiting_approval"

\* C29: the graph is cyclic only through supervisor -> draft and is entered at
\* draft: when a draft step executes, either no step of the session has executed
\* before, or the step that executed last on the session was a supervisor step
\* that decided needs_revision
C29_DraftOnlyAfterRevision ==
  [][\A s \in Sessions : \A r \in RunIds :
       (run'[s][r].trace /= run[s][r].trace /\ run[s][r].next = "draft")
         => \/ \A q \in RunIds : run[s][q].trace = <<>>
            \/ /\ store[s].last = "supervisor"
               /\ "needs_revision" \in StatusTags(Persisted(s).status)]_vars

\* C30: the safety review merges the returned checks into safety_checks as a
\* union: the keys are those of both, every key of the old checks that the
\* returned checks lack keeps its value, and every returned key has the returned
\* value
C30_SafetyChecksUnion ==
  (NodeReturned /\ probe.fn = "safety_review" /\ Has(probe.result, "safety_checks"))
    => LET old == probe.state.safety_checks
           returned == probe.result.safety_checks
           new == probe.state2.safety_checks
       IN /\ DOMAIN new = (DOMAIN old) \cup (DOMAIN returned)
          /\ \A k \in (DOMAIN old) \ (DOMAIN returned) : new[k] = old[k]
          /\ \A k \in DOMAIN returned : new[k] = returned[k]

\* a review that returned a check the state had with another value and a new
\* check, on a state with a check the review did not return
C30_Witness ==
  /\ NodeReturned /\ probe.fn = "safety_review"
  /\ Has(probe.result, "safety_checks")
  /\ probe.state.safety_checks = [no_harm |-> FALSE, evidence |-> TRUE]
  /\ probe.result.safety_checks = [no_harm |-> TRUE, tone |-> FALSE]
  /\ probe.state2.safety_checks = [no_harm |-> TRUE, evidence |-> TRUE, tone |-> FALSE]

\* the state_update events of the current stream call
ProgressEvents(s) == events[s].count - events[s].finals

\* C31: a stream call sends exactly one progress event per step its run executed,
\* in execution order, each after the step's checkpoint was written and carrying
\* the step's name and the state (so the status) that step persisted
C31_ProgressPerStep ==
  [][\A s \in Sessions :
       (run[s]["st"].pc = "check" /\ run'[s]["st"].pc /= "check")
         => LET step == run[s]["st"]
            IN /\ events'[s].count - events'[s].finals = ProgressEvents(s) + 1
               /\ events'[s].count - events'[s].finals = Len(step.trace)
               /\ events'[s].last.node = step.trace[Len(step.trace)]
               /\ events'[s].last.state = step.mem
               /\ events'[s].last.state.status = step.base.values.status]_vars

\* C32: every stream call ends with exactly one final event (complete, halted
\* or error): a call never sends two final events, sends nothing after its final
\* event, and has sent one when it ends
C32_OneFinalEvent ==
  [][\A s \in Sessions :
       /\ events'[s].finals <= 1
       /\ (events[s].finals = 1 /\ strm'[s].n = strm[s].n) => events'[s] = events[s]
       /\ (strm'[s].pc = "idle" /\ (strm[s].pc /= "idle" \/ strm'[s].n = strm[s].n + 1))
            => events'[s].finals = 1]_vars

\* C33: in every persisted state current_version is the length of draft_history
C33_VersionIsHistoryLength ==
  \A s \in Sessions :
    store[s].exists => Persisted(s).current_version = Len(Persisted(s).draft_history)

\* an approval with edits was persisted: the current draft is the edited text,
\* the one record of the history still has the drafter's text, and the version
\* is 1
C33_Witness ==
  \E s \in Sessions :
    /\ store[s].exists
    /\ appr[s].pc = "wrote" /\ appr[s].has_edits
    /\ Persisted(s).human_edits = "edited"
    /\ Persisted(s).current_draft = "edited"
    /\ Len(Persisted(s).draft_history) = 1
    /\ Persisted(s).draft_history[1].content /= Persisted(s).current_draft
    /\ Persisted(s).current_version = 1

\* C34: on every state a node returns, the router's answer is a key of that
\* node's conditional-edge map
C34_RouterAnswerMapped ==
  NodeReturned =>
    /\ should_continue(probe.state2) \in EdgeKeys(probe.fn)
    /\ NextAfter(probe.fn, probe.state2) /= "KeyError"

\* the drafter named the clinical critic as the active agent: the router answers
\* supervisor, a key that of the four maps only some hold and the draft map does
C34_Witness ==
  /\ NodeReturned /\ probe.fn = "draft"
  /\ ~probe.state.halted
  /\ Has(probe.result, "active_agent") /\ probe.result.active_agent = "ClinicalCritic"
  /\ should_continue(probe.state2) = "supervisor"
  /\ NextAfter(probe.fn, probe.state2) = "supervisor"

\* C35: the temporary storage holds an intent for a session only while the
\* session has no checkpoint: the entry is gone once create or stream has written
\* a checkpoint, and stream writes the seed state only over no checkpoint
C35_IntentOnlyWithoutCheckpoint ==
  [][\A s \in Sessions :
       /\ intents'[s] /= None => ~store'[s].exists
       /\ (strm[s].pc = "seed" /\ strm'[s].pc = "start")
            => ~store[s].exists /\ store'[s].exists /\ intents'[s] = None]_vars

====
